---- MODULE Spec2Model ----
(***************************************************************************)
(* A model of rust-portforward: the throughput Meter (src/Meter), the      *)
(* tokio listener and duplex relay (src/ConnHandle), and the thread-pool   *)
(* fan-out variant (src/main.rs with src/ThreadPool).                      *)
(*                                                                         *)
(* Each subsystem has its own specification over the shared variables:     *)
(*   SpecMeter   the aggregator thread and Meter::shutdown                 *)
(*   SpecRelay   handle_conn: one connection's two copy loops              *)
(*   SpecRelayMeter  one connection reporting to a Meter that runs         *)
(*   Spec        accept_conn per rule, the shutdown coordinator, the meter *)
(*   SpecDrain   one accept_conn from bind to return, fair select!         *)
(*   SpecFanout  main.rs handle_forward: one connection fanned out         *)
(*   SpecPool    main.rs main and accept_conn over the ThreadPool          *)
(*   SpecConfig  get_config over a command line and a configuration file   *)
(*   SpecThreadPool  a ThreadPool on its own: execute, the workers, Drop    *)
(*   SpecMeterAudit  the Meter's cycles with the history of its reports     *)
(***************************************************************************)
EXTENDS Integers, Sequences, FiniteSets, TLC

(***************************************************************************)
(* Bounds of the model.                                                    *)
(***************************************************************************)
\* Largest clock value (Instant::now() in ticks).
MaxTicks == 2
\* Largest number of messages queued in the meter's message channel.
MaxChan == 2
\* Largest byte count carried by one meter message.
MaxBytes == 1
\* Largest number of jobs passed to ThreadPool::execute.
MaxJobs == 3
\* Largest number of bytes a peer sends on one direction of a relayed connection.
MaxLen == 2
\* Largest copy buffer, in bytes.
MaxBuff == 2
\* Number of forwarding rules, each with its listener.
NListeners == 2
\* Largest number of connections accepted in a run, over all listeners.
MaxConns == 3
\* Largest number of connections waiting in one listen backlog.
MaxBacklog == 1
\* The largest id the counter holds before it wraps: u32::MAX, scaled down.
IdMax == 1
\* Number of targets of a forwarding rule of the fan-out relay.
NTargets == 3
\* Number of forwarding rules of the thread-pool program.
NRules == 2
\* config.n_thread, the number of workers of the pool.
NThread == 2
\* Largest number of jobs queued in the pool's channel.
MaxQueue == 1
\* Largest source port of a forwarding rule given to get_config.
MaxPort == 2
\* Largest number of rules on the command line, and of lines of the file.
MaxRules == 2

VARIABLES
    \* ---- Meter (src/Meter/mod.rs) ----
    meter_pc,       \* position of the meter thread in spawn_meter_thread
    map,            \* HashMap<(SocketAddr, Direction), Vec<(Instant, usize)>>
    msg_chan,       \* messages queued in the mpsc message channel: per key, since each
                    \* key has one sending loop and the channel keeps a sender's order
    msg_senders,    \* number of live MeterMessageSender handles
    sd_chan,        \* number of () queued in the shutdown command channel
    meter_handle,   \* the Meter value: live, or where Meter::shutdown(self) is
    last_rate,      \* what the "Construct the rates" pass of this cycle printed, per key
    registered,     \* keys whose copy loop has sent its first (zero-byte) report
    now,            \* the monotonic clock read by Instant::now()
    \* ---- Duplex relay (src/ConnHandle/mod.rs, handle_conn and below) ----
    conn_pc,        \* position of handle_conn
    fl_pc,          \* per direction: position of the handle_forward task
    in_len,         \* per direction: how many bytes the reading side's peer sends
    peer_closed,    \* per direction: the end of stream is next in the read socket's queue
    buff_cap,       \* buff.len(), the copy buffer's capacity in bytes
    rpos,           \* per direction: bytes read from the source so far
    buff,           \* per direction: buff[..bytes_read], the chunk in hand
    delivered,      \* per direction: the bytes the destination's write calls accepted
    loop_res,       \* per direction: forward_loop's result
    shutdown_res,   \* per direction: what tgt_wstream.shutdown() returned
    fwd_ret,        \* per direction: handle_forward's return value
    sock,           \* per socket: which sides of the relay's end are still open
    late_report,    \* per direction: result of the last report made after Meter::shutdown was called
    \* ---- Listener (src/ConnHandle/mod.rs, accept_conn) and its coordinator ----
    JOIN_HANDLE_ID, \* the process-wide id counter
    lst_pc,         \* per listener: position of accept_conn
    backlog,        \* per listener: connections waiting in the listen backlog
    conns,          \* per listener: the HashSet of JoinHandleWithId, as <<id, task>> pairs
    tasks,          \* per spawned relay task: its listener and whether it still runs
    sd_msgs,        \* per listener: messages queued in its shutdown channel
    sd_sender,      \* per listener: the Sender of its shutdown channel is not dropped
    accept_err,     \* per listener: an accept error has been logged
    coord_state,    \* the shutdown coordinator: Running, Draining, Stopped
    \* ---- Fan-out relay (src/main.rs, handle_forward) ----
    fan_pc,         \* position of handle_forward
    fan_in_len,     \* how many bytes the source peer sends
    fan_cap,        \* the BufReader's capacity in bytes
    fan_src,        \* the source stream: open, eof (the peer closed) or err
    fan_rpos,       \* bytes consumed from the source so far
    fan_buff,       \* the chunk fill_buf returned
    connected,      \* the targets get_write_streams connected to
    write_streams,  \* the targets whose entry of write_streams is still Some
    fan_delivered,  \* per target: the bytes its socket accepted
    fan_log,        \* per target: how many failures were logged for it
    \* ---- Thread-pool program (src/main.rs main and accept_conn, src/ThreadPool) ----
    main_pc,        \* position of main
    main_i,         \* the rule main is binding, or the handle it is joining
    bindable,       \* per rule: whether its source port can be bound
    pl_pc,          \* per rule: its listener thread
    pl_backlog,     \* per rule: connections waiting in its listen backlog
    job_queue,      \* number of jobs queued in the pool's channel
    wk,             \* per worker: its thread
    pool_poisoned,  \* the Mutex around the ThreadPool is poisoned
    \* ---- Configuration (src/Config/mod.rs, get_config) ----
    cfg_pc,         \* position of get_config, or its result: Ok or Err
    cfg_free,       \* matches.free: the forwarding rules of the command line
    cfg_file,       \* the -f option: whether it is given, and the file's lines
    cfg_i,          \* index of the next entry of the list being walked
    forwards,       \* the forwards vector
    cfg_err,        \* which error get_config returned
    \* ---- ThreadPool on its own (src/ThreadPool/mod.rs) ----
    tp_sender,      \* ThreadPool.sender is Some: the job channel has its sender
    tp_channel,     \* the jobs queued in the mpsc channel, oldest first
    tp_jobs,        \* per job: its closure's behaviour and what became of it
    tp_workers,     \* per worker: its thread
    tp_drop,        \* position of ThreadPool::drop and the worker it joins
    \* ---- History of the Meter's reports (src/Meter/mod.rs, lines 63-99) ----
    seed_reported   \* keys whose retained sample was summed into a reported total

meterVars == <<meter_pc, map, msg_chan, msg_senders, sd_chan, meter_handle, last_rate,
               registered, now>>

relayVars == <<conn_pc, fl_pc, in_len, peer_closed, buff_cap, rpos, buff, delivered,
               loop_res, shutdown_res, fwd_ret, sock, late_report>>

listenerVars == <<JOIN_HANDLE_ID, lst_pc, backlog, conns, tasks, sd_msgs, accept_err, coord_state,
                  sd_sender>>

fanVars == <<fan_pc, fan_in_len, fan_cap, fan_src, fan_rpos, fan_buff, connected,
             write_streams, fan_delivered, fan_log>>

poolVars == <<main_pc, main_i, bindable, pl_pc, pl_backlog, job_queue, wk, pool_poisoned>>

cfgVars == <<cfg_pc, cfg_free, cfg_file, cfg_i, forwards, cfg_err>>

tpVars == <<tp_sender, tp_channel, tp_jobs, tp_workers, tp_drop>>

auditVars == <<seed_reported>>

\* What the actions of each part leave alone.
notMeterVars == <<relayVars, listenerVars, fanVars, poolVars, cfgVars, tpVars, auditVars>>

notRelayVars == <<listenerVars, fanVars, poolVars, cfgVars, tpVars, auditVars>>

notListenerVars == <<relayVars, fanVars, poolVars, cfgVars, tpVars, auditVars>>

notFanVars == <<meterVars, relayVars, listenerVars, poolVars, cfgVars, tpVars, auditVars>>

notPoolVars == <<meterVars, relayVars, listenerVars, fanVars, cfgVars, tpVars, auditVars>>

notCfgVars == <<meterVars, relayVars, listenerVars, fanVars, poolVars, tpVars, auditVars>>

notTpVars == <<meterVars, relayVars, listenerVars, fanVars, poolVars, cfgVars, auditVars>>

vars == <<meterVars, relayVars, listenerVars, fanVars, poolVars, cfgVars, tpVars, auditVars>>

(***************************************************************************)
(* Meter: src/Meter/mod.rs                                                 *)
(***************************************************************************)
Direction == {"To", "From"}

\* The socket addresses of the metered sources; one suffices for a window.
SockAddrs == {"peer1"}

Keys == SockAddrs \X Direction

NoRate == <<>>

EmptyMap == [k \in Keys |-> <<>>]

\* Message { src_sockaddr, direction, instant, n_bytes }
Message(addr, dir, instant, n) ==
    [src_sockaddr |-> addr, direction |-> dir, instant |-> instant, n_bytes |-> n]

\* The meter thread still owns its two receivers: its closure has neither
\* returned nor unwound.
MeterReceiversAlive == meter_pc \notin {"panicked", "exited"}

\* Lines 53-60: push one message's (instant, n_bytes) to the vector of its key
\* (an absent key is the empty vector here).
PushMessage(m, msg) ==
    [m EXCEPT ![<<msg.src_sockaddr, msg.direction>>] =
        Append(@, <<msg.instant, msg.n_bytes>>)]

RECURSIVE PushQueue(_, _)
PushQueue(m, q) ==
    IF q = <<>> THEN m ELSE PushQueue(PushMessage(m, Head(q)), Tail(q))

\* Lines 42-61: every queued message is pushed; the vectors of two keys do not
\* depend on the order in which their messages are taken.
RECURSIVE PushAll(_, _, _)
PushAll(m, chan, ks) ==
    IF ks = {} THEN m
    ELSE LET k == CHOOSE x \in ks : TRUE
         IN  PushAll(PushQueue(m, chan[k]), chan, ks \ {k})

EmptyChan == [k \in Keys |-> <<>>]

RECURSIVE QueuedOf(_, _)
QueuedOf(chan, ks) ==
    IF ks = {} THEN 0
    ELSE LET k == CHOOSE x \in ks : TRUE
         IN  Len(chan[k]) + QueuedOf(chan, ks \ {k})

\* How many messages the channel holds.
Queued == QueuedOf(msg_chan, Keys)

\* Lines 71-85: the fold giving (min instant, max instant, total bytes).
RECURSIVE FoldRate(_, _)
FoldRate(acc, v) ==
    IF v = <<>> THEN acc
    ELSE LET instant == Head(v)[1]
             n_bytes == Head(v)[2]
             n_acc   == IF acc = NoRate
                        THEN <<instant, instant, n_bytes>>
                        ELSE << IF acc[1] > instant THEN instant ELSE acc[1],
                                IF acc[2] < instant THEN instant ELSE acc[2],
                                acc[3] + n_bytes >>
         IN  FoldRate(n_acc, Tail(v))

RateOfNewSamples(v) ==
    LET r == FoldRate(NoRate, Tail(v)) IN <<r[3], r[2] - r[1]>>

\* Lines 88-95: the printed figure, kept exact as <<total bytes, duration>>.
RateOf(v) ==
    LET r == FoldRate(NoRate, v) IN <<r[3], r[2] - r[1]>>

CompactToOldest(v) == <<v[1]>>

\* Line 98: v.drain(..v.len() - 1)
Compact(v) == <<v[Len(v)]>>

\* Line 39: thread::sleep; the clock advances by Tick.
MeterSleep ==
    /\ meter_pc = "sleep"
    /\ meter_pc' = "drain"
    /\ UNCHANGED <<map, msg_chan, msg_senders, sd_chan, meter_handle, last_rate, registered, now>>
    /\ UNCHANGED notMeterVars

\* Lines 41-61: read the channel until it is clear.  try_recv hands out every
\* queued message before it reports Empty, or Disconnected once no sender is
\* left, which panics the thread (its locals and receivers are dropped).
MeterDrain ==
    /\ meter_pc = "drain"
    /\ msg_chan' = EmptyChan
    /\ IF msg_senders = 0
       THEN /\ meter_pc' = "panicked"
            /\ map' = EmptyMap
            /\ last_rate' = [k \in Keys |-> NoRate]
       ELSE /\ meter_pc' = "rates"
            /\ map' = PushAll(map, msg_chan, Keys)
            /\ UNCHANGED last_rate
    /\ UNCHANGED <<msg_senders, sd_chan, meter_handle, registered, now>>
    /\ UNCHANGED notMeterVars

\* Lines 63-99: construct the rates, then leave one element per vector.
MeterRatesPass ==
    /\ meter_pc = "rates"
    /\ last_rate' = [k \in Keys |-> IF Len(map[k]) <= 1 THEN NoRate ELSE RateOf(map[k])]
    /\ map' = [k \in Keys |-> IF Len(map[k]) <= 1 THEN map[k] ELSE Compact(map[k])]
    /\ meter_pc' = "check"
    /\ UNCHANGED <<msg_chan, msg_senders, sd_chan, meter_handle, registered, now>>

MeterRates ==
    /\ MeterRatesPass
    /\ UNCHANGED notMeterVars

\* The same pass, with its history recorded: the sample line 98 leaves in a
\* vector of two or more was part of the total the fold of lines 71-85 summed.
MeterRatesAudit ==
    /\ MeterRatesPass
    /\ seed_reported' = seed_reported \cup {k \in Keys : Len(map[k]) >= 2}
    /\ UNCHANGED <<relayVars, listenerVars, fanVars, poolVars, cfgVars, tpVars>>

ThreadReturns == "exited"

\* Where the thread goes after line 105's break: the break leaves the loop of
\* line 37, and the loop of line 34 around it starts over with a new map.
AfterShutdownBreak == "sleep"

\* Lines 101-113: check if the shutdown command has been sent.
MeterCheckShutdown ==
    /\ meter_pc = "check"
    /\ IF sd_chan > 0
       THEN /\ sd_chan' = sd_chan - 1
            /\ meter_pc' = AfterShutdownBreak
            /\ map' = EmptyMap
            /\ last_rate' = [k \in Keys |-> NoRate]
       ELSE IF meter_handle \in {"live", "joining"}
       THEN /\ meter_pc' = "sleep"
            /\ last_rate' = [k \in Keys |-> NoRate]
            /\ UNCHANGED <<sd_chan, map>>
       ELSE /\ meter_pc' = "panicked"
            /\ map' = EmptyMap
            /\ last_rate' = [k \in Keys |-> NoRate]
            /\ UNCHANGED sd_chan
    /\ UNCHANGED <<msg_chan, msg_senders, meter_handle, registered, now>>
    /\ UNCHANGED notMeterVars

\* MeterMessageSender::send, lines 128-141: Err when the receiver is gone.
SendResult == IF MeterReceiversAlive THEN "Ok" ELSE "Err"

MeterSend(addr, dir, n) ==
    IF SendResult = "Ok"
    THEN msg_chan' = [msg_chan EXCEPT ![<<addr, dir>>] = Append(@, Message(addr, dir, now, n))]
    ELSE UNCHANGED msg_chan

\* The copy loops feeding the meter.  Each loop owns one key and reports 0
\* first (forward_loop, ConnHandle line 250), then the size of every chunk it
\* wrote (line 257).  The loops of DataKeys carry data; the others stay idle
\* after their first report.
DataKeys == {<<"peer1", "From">>}

ProducerSend ==
    /\ msg_senders > 0
    /\ Queued < MaxChan
    /\ \E k \in Keys :
          IF k \notin registered
          THEN /\ MeterSend(k[1], k[2], 0)
               /\ registered' = registered \cup {k}
          ELSE /\ k \in DataKeys
               /\ \E n \in 1..MaxBytes : MeterSend(k[1], k[2], n)
               /\ UNCHANGED registered
    /\ UNCHANGED <<meter_pc, map, msg_senders, sd_chan, meter_handle, last_rate, now>>
    /\ UNCHANGED notMeterVars

\* A MeterMessageSender goes out of scope.
DropSender ==
    /\ msg_senders > 0
    /\ msg_senders' = msg_senders - 1
    /\ UNCHANGED <<meter_pc, map, msg_chan, sd_chan, meter_handle, last_rate, registered, now>>
    /\ UNCHANGED notMeterVars

\* Time passes.
Tick ==
    /\ now < MaxTicks
    /\ now' = now + 1
    /\ UNCHANGED <<meter_pc, map, msg_chan, msg_senders, sd_chan, meter_handle, last_rate, registered>>
    /\ UNCHANGED notMeterVars

\* Meter::shutdown, lines 164-167: send the shutdown command.
MeterShutdownSend ==
    /\ meter_handle = "live"
    /\ IF MeterReceiversAlive
       THEN /\ sd_chan' = sd_chan + 1
            /\ meter_handle' = "joining"
       ELSE /\ meter_handle' = "SendCommandError"
            /\ UNCHANGED sd_chan
    /\ UNCHANGED <<meter_pc, map, msg_chan, msg_senders, last_rate, registered, now>>
    /\ UNCHANGED notMeterVars

\* Meter::shutdown, lines 169-173: t_handle.join() returns once the thread has
\* ended, with Err when it ended by a panic.
MeterShutdownJoin ==
    /\ meter_handle = "joining"
    /\ meter_pc \in {"exited", "panicked"}
    /\ meter_handle' = IF meter_pc = "panicked" THEN "JoinError" ELSE "Ok"
    /\ UNCHANGED <<meter_pc, map, msg_chan, msg_senders, sd_chan, last_rate, registered, now>>
    /\ UNCHANGED notMeterVars

\* The owner lets the Meter go out of scope without calling shutdown: its
\* shutdown_sender is dropped with it.
MeterDrop ==
    /\ meter_handle = "live"
    /\ meter_handle' = "dropped"
    /\ UNCHANGED <<meter_pc, map, msg_chan, msg_senders, sd_chan, last_rate, registered, now>>
    /\ UNCHANGED notMeterVars

\* Meter::new, lines 145-161.
MeterInit ==
    /\ meter_pc = "sleep"
    /\ map = EmptyMap
    /\ msg_chan = EmptyChan
    /\ msg_senders = 1
    /\ sd_chan = 0
    /\ meter_handle = "live"
    /\ last_rate = [k \in Keys |-> NoRate]
    /\ registered = {}
    /\ now = 0
    /\ seed_reported = {}

(***************************************************************************)
(* Duplex relay: src/ConnHandle/mod.rs, handle_conn, handle_forward,       *)
(* forward_loop                                                            *)
(***************************************************************************)
\* s2t copies source -> target, t2s copies target -> source.
Dirs == {"s2t", "t2s"}

OtherDir(d) == IF d = "s2t" THEN "t2s" ELSE "s2t"

\* Lines 143 and 155: the read half and the write half each task owns.
ReadSock(d) == IF d = "s2t" THEN "src" ELSE "tgt"

WriteSock(d) == IF d = "s2t" THEN "tgt" ELSE "src"

\* Lines 145 and 157: the direction each task reports to the meter.
MeterDir(d) == IF d = "s2t" THEN "From" ELSE "To"

\* The bytes a peer sends are numbered, so that a lost, repeated or
\* reordered byte shows.
Input(d) == [i \in 1..in_len[d] |-> i]

Prefix(q, n) == SubSeq(q, 1, n)

Min(a, b) == IF a < b THEN a ELSE b

FullClose(s) == [s EXCEPT !.wr = FALSE, !.rd = FALSE]

\* Line 219: OwnedWriteHalf::shutdown shuts down the write direction only.
HalfClose(s) == [s EXCEPT !.wr = FALSE]

\* Meter::shutdown(self) has been called on the Meter.
ShutdownCalled == meter_handle \in {"joining", "Ok", "JoinError", "SendCommandError"}

\* Lines 144-146 and 156-158: send(..).unwrap() panics the task when the send
\* fails.
ReportOrPanic(d, n, next_pc) ==
    /\ MeterSend("peer1", MeterDir(d), n)
    /\ late_report' = IF ShutdownCalled
                      THEN [late_report EXCEPT ![d] = SendResult]
                      ELSE late_report
    /\ IF SendResult = "Ok"
       THEN /\ fl_pc' = [fl_pc EXCEPT ![d] = next_pc]
            /\ UNCHANGED <<sock, msg_senders>>
       ELSE \* unwinding drops the task's halves and its sender: the dropped
            \* write half shuts the write direction down
            /\ fl_pc' = [fl_pc EXCEPT ![d] = "panicked"]
            /\ sock' = [sock EXCEPT ![WriteSock(d)] = HalfClose(@)]
            /\ msg_senders' = msg_senders - 1

\* Line 134: TcpStream::connect(tgt_sockaddr).await?
HandleConnConnectErr ==
    /\ conn_pc = "connect"
    /\ conn_pc' = "ConnectErr"
    /\ msg_senders' = msg_senders - 1
    /\ sock' = [x \in {"src", "tgt"} |-> [rd |-> FALSE, wr |-> FALSE]]
    /\ UNCHANGED <<fl_pc, in_len, peer_closed, buff_cap, rpos, buff, delivered,
                   loop_res, shutdown_res, fwd_ret>>
    /\ UNCHANGED <<meter_pc, map, msg_chan, sd_chan, meter_handle, last_rate, registered, now>>
    /\ UNCHANGED late_report
    /\ UNCHANGED notRelayVars

\* Lines 134-162: the connect succeeds and the two tasks are spawned, s2t with
\* a clone of the sender and t2s with the sender itself.
HandleConnSpawn ==
    /\ conn_pc = "connect"
    /\ conn_pc' = "join"
    /\ fl_pc' = [d \in Dirs |-> "start"]
    /\ msg_senders' = msg_senders + 1
    /\ UNCHANGED <<in_len, peer_closed, buff_cap, rpos, buff, delivered,
                   loop_res, shutdown_res, fwd_ret, sock>>
    /\ UNCHANGED <<meter_pc, map, msg_chan, sd_chan, meter_handle, last_rate, registered, now>>
    /\ UNCHANGED late_report
    /\ UNCHANGED notRelayVars

\* A copy loop that would go to its first read without the report of line 250.
ForwardLoopStartSilent(d) ==
    /\ fl_pc[d] = "start"
    /\ fl_pc' = [fl_pc EXCEPT ![d] = "read"]
    /\ UNCHANGED <<conn_pc, in_len, peer_closed, buff_cap, rpos, buff, delivered,
                   loop_res, shutdown_res, fwd_ret, sock, late_report>>
    /\ UNCHANGED meterVars
    /\ UNCHANGED notRelayVars

\* Lines 249-250: allocate the buffer, send 0 to initialize the meter.
ForwardLoopStart(d) ==
    /\ fl_pc[d] = "start"
    /\ ReportOrPanic(d, 0, "read")
    /\ UNCHANGED <<conn_pc, in_len, peer_closed, buff_cap, rpos, buff, delivered,
                   loop_res, shutdown_res, fwd_ret>>
    /\ UNCHANGED <<meter_pc, map, sd_chan, meter_handle, last_rate, registered, now>>
    /\ UNCHANGED notRelayVars

\* Line 252, Ok(n) with n > 0: read returns between 1 and buff.len() of the
\* bytes the peer has sent.
ForwardLoopReadChunk(d) ==
    /\ fl_pc[d] = "read"
    /\ sock[ReadSock(d)].rd
    /\ \E n \in 1..Min(buff_cap, in_len[d] - rpos[d]) :
          /\ buff' = [buff EXCEPT ![d] = SubSeq(Input(d), rpos[d] + 1, rpos[d] + n)]
          /\ rpos' = [rpos EXCEPT ![d] = rpos[d] + n]
    /\ fl_pc' = [fl_pc EXCEPT ![d] = "write"]
    /\ UNCHANGED <<conn_pc, in_len, peer_closed, buff_cap, delivered,
                   loop_res, shutdown_res, fwd_ret, sock>>
    /\ UNCHANGED meterVars
    /\ UNCHANGED late_report
    /\ UNCHANGED notRelayVars

\* Lines 252-255, Ok(0): end of stream, once the peer has closed its write side
\* and everything it sent was read (or this end's read side is shut down).
ForwardLoopReadEof(d) ==
    /\ fl_pc[d] = "read"
    /\ \/ ~sock[ReadSock(d)].rd
       \/ (peer_closed[d] /\ rpos[d] = in_len[d])
    /\ loop_res' = [loop_res EXCEPT ![d] = "Ok"]
    /\ fl_pc' = [fl_pc EXCEPT ![d] = "shutdown"]
    /\ UNCHANGED <<conn_pc, in_len, peer_closed, buff_cap, rpos, buff, delivered,
                   shutdown_res, fwd_ret, sock>>
    /\ UNCHANGED meterVars
    /\ UNCHANGED late_report
    /\ UNCHANGED notRelayVars

\* Line 252, Err: the read fails and `?` ends the loop.
ForwardLoopReadErr(d) ==
    /\ fl_pc[d] = "read"
    /\ loop_res' = [loop_res EXCEPT ![d] = "Err"]
    /\ fl_pc' = [fl_pc EXCEPT ![d] = "shutdown"]
    /\ UNCHANGED <<conn_pc, in_len, peer_closed, buff_cap, rpos, buff, delivered,
                   shutdown_res, fwd_ret, sock>>
    /\ UNCHANGED meterVars
    /\ UNCHANGED late_report
    /\ UNCHANGED notRelayVars

\* The bytes of chunk b that reach the destination when the write call
\* accepts n of them: line 256 calls write once and drops its return value.
Accepted(b, n) == Prefix(b, n)

\* Lines 256-257, Ok(n): write accepts between 1 and all of the chunk's bytes;
\* then the loop reports bytes_read.
ForwardLoopWriteOk(d) ==
    /\ fl_pc[d] = "write"
    /\ \E n \in 1..Len(buff[d]) :
          delivered' = [delivered EXCEPT ![d] = @ \o Accepted(buff[d], n)]
    /\ ReportOrPanic(d, Len(buff[d]), "read")
    /\ buff' = [buff EXCEPT ![d] = <<>>]
    /\ UNCHANGED <<conn_pc, in_len, peer_closed, buff_cap, rpos,
                   loop_res, shutdown_res, fwd_ret>>
    /\ UNCHANGED <<meter_pc, map, sd_chan, meter_handle, last_rate, registered, now>>
    /\ UNCHANGED notRelayVars

\* Line 256, Err: the write fails and `?` ends the loop.
ForwardLoopWriteErr(d) ==
    /\ fl_pc[d] = "write"
    /\ loop_res' = [loop_res EXCEPT ![d] = "Err"]
    /\ buff' = [buff EXCEPT ![d] = <<>>]
    /\ fl_pc' = [fl_pc EXCEPT ![d] = "shutdown"]
    /\ UNCHANGED <<conn_pc, in_len, peer_closed, buff_cap, rpos, delivered,
                   shutdown_res, fwd_ret, sock>>
    /\ UNCHANGED meterVars
    /\ UNCHANGED late_report
    /\ UNCHANGED notRelayVars

ShutdownResStrict(r) == IF r = "Ok" THEN "Ok" ELSE "Err"

\* Lines 219-223: what the half-close's result counts as.
ShutdownRes(r) == IF r \in {"Ok", "NotConnected"} THEN "Ok" ELSE "Err"

\* Lines 205-241: handle_forward has not returned yet.
NotReturned == [ok |-> FALSE, loop_error |-> FALSE, shutdown_error |-> FALSE]

\* Lines 225-240: error gathering.
HandleForwardRet(l, s) ==
    IF l = "Ok" /\ s = "Ok"
    THEN [ok |-> TRUE, loop_error |-> FALSE, shutdown_error |-> FALSE]
    ELSE [ok |-> FALSE, loop_error |-> (l = "Err"), shutdown_error |-> (s = "Err")]

\* Lines 219-241: half-close the destination, gather the errors and return;
\* the task's sender is dropped with its closure.
HandleForwardShutdown(d) ==
    /\ fl_pc[d] = "shutdown"
    /\ \E r \in {"Ok", "NotConnected", "Other"} :
          /\ shutdown_res' = [shutdown_res EXCEPT ![d] = r]
          /\ fwd_ret' = [fwd_ret EXCEPT ![d] = HandleForwardRet(loop_res[d], ShutdownRes(r))]
          /\ sock' = [sock EXCEPT ![WriteSock(d)] = IF r = "Ok" THEN HalfClose(@) ELSE @]
    /\ fl_pc' = [fl_pc EXCEPT ![d] = "done"]
    /\ msg_senders' = msg_senders - 1
    /\ UNCHANGED <<conn_pc, in_len, peer_closed, buff_cap, rpos, buff, delivered, loop_res>>
    /\ UNCHANGED <<meter_pc, map, msg_chan, sd_chan, meter_handle, last_rate, registered, now>>
    /\ UNCHANGED late_report
    /\ UNCHANGED notRelayVars

TaskEnded(d) == fl_pc[d] \in {"done", "panicked"}

OneTaskEnded == \E d \in Dirs : TaskEnded(d)

\* Line 164: tokio::join!(s2t, t2s) completes when both tasks have ended, by
\* a return or by a panic.
JoinCompletes == \A d \in Dirs : TaskEnded(d)

\* Lines 164-183: join both tasks, log their results, report the close.  Both
\* halves of both streams are dropped by now, which closes the sockets.
HandleConnJoin ==
    /\ conn_pc = "join"
    /\ JoinCompletes
    /\ conn_pc' = "closed"
    /\ sock' = [x \in {"src", "tgt"} |-> [rd |-> FALSE, wr |-> FALSE]]
    /\ UNCHANGED <<fl_pc, in_len, peer_closed, buff_cap, rpos, buff, delivered,
                   loop_res, shutdown_res, fwd_ret>>
    /\ UNCHANGED meterVars
    /\ UNCHANGED late_report
    /\ UNCHANGED notRelayVars

\* The peer on the reading side of direction d has closed its write side and
\* the relay has read all that came before: the end of stream is what the next
\* read finds.
PeerClose(d) ==
    /\ ~peer_closed[d]
    /\ rpos[d] = in_len[d]
    /\ peer_closed' = [peer_closed EXCEPT ![d] = TRUE]
    /\ UNCHANGED <<conn_pc, fl_pc, in_len, buff_cap, rpos, buff, delivered,
                   loop_res, shutdown_res, fwd_ret, sock>>
    /\ UNCHANGED meterVars
    /\ UNCHANGED late_report
    /\ UNCHANGED notRelayVars

\* One step of one of the two spawned tasks.
RelayTaskStep(d) ==
    \/ ForwardLoopStart(d)
    \/ ForwardLoopReadChunk(d)
    \/ ForwardLoopReadEof(d)
    \/ ForwardLoopReadErr(d)
    \/ ForwardLoopWriteOk(d)
    \/ ForwardLoopWriteErr(d)
    \/ HandleForwardShutdown(d)

\* No connection is being relayed.
RelayIdle ==
    /\ conn_pc = "none"
    /\ fl_pc = [d \in Dirs |-> "idle"]
    /\ in_len = [d \in Dirs |-> 0]
    /\ peer_closed = [d \in Dirs |-> FALSE]
    /\ buff_cap = 1
    /\ rpos = [d \in Dirs |-> 0]
    /\ buff = [d \in Dirs |-> <<>>]
    /\ delivered = [d \in Dirs |-> <<>>]
    /\ loop_res = [d \in Dirs |-> "none"]
    /\ shutdown_res = [d \in Dirs |-> "none"]
    /\ fwd_ret = [d \in Dirs |-> NotReturned]
    /\ sock = [x \in {"src", "tgt"} |-> [rd |-> FALSE, wr |-> FALSE]]
    /\ late_report = [d \in Dirs |-> "none"]

\* handle_conn is entered with an accepted source stream; what the two peers
\* send and the buffer size are the inputs.
RelayInit ==
    /\ conn_pc = "connect"
    /\ fl_pc = [d \in Dirs |-> "idle"]
    /\ in_len \in [Dirs -> 0..MaxLen]
    /\ peer_closed = [d \in Dirs |-> FALSE]
    /\ buff_cap \in 1..MaxBuff
    /\ rpos = [d \in Dirs |-> 0]
    /\ buff = [d \in Dirs |-> <<>>]
    /\ delivered = [d \in Dirs |-> <<>>]
    /\ loop_res = [d \in Dirs |-> "none"]
    /\ shutdown_res = [d \in Dirs |-> "none"]
    /\ fwd_ret = [d \in Dirs |-> NotReturned]
    /\ sock = [x \in {"src", "tgt"} |-> [rd |-> TRUE, wr |-> TRUE]]
    /\ late_report = [d \in Dirs |-> "none"]

(***************************************************************************)
(* Listener: src/ConnHandle/mod.rs, JoinHandleWithId and accept_conn       *)
(***************************************************************************)
Listeners == 1..NListeners

TaskIds == 1..MaxConns

NoTask == [owner |-> 0, state |-> "none"]

\* How many relay tasks have been spawned.
Spawned == Cardinality({t \in TaskIds : tasks[t].state # "none"})

\* Lines 27-41: the id handed out is the counter's value; the counter goes
\* back to 0 from the largest value.
NextId(id) == IF id >= IdMax THEN 0 ELSE id + 1

\* Lines 57-67 and 111: JoinHandleWithId is equal and hashed by its id alone,
\* so HashSet::insert keeps the entry already there and drops the new handle,
\* which detaches its task.
Insert(set, id, t) ==
    IF \E e \in set : e[1] = id THEN set ELSE set \cup {<<id, t>>}

\* JoinHandle::is_finished
IsFinished(tk, t) == tk[t].state \in {"finished", "panicked"}

\* Line 114: conns.retain(|c| !c.is_finished())
Retain(set, tk) == {e \in set : ~IsFinished(tk, e[2])}

\* Lines 86-100: select! polls its two branches in a random order, so the
\* accept branch can win whenever a connection is ready, whether or not a
\* shutdown message is waiting too.
AcceptBranchReady(l) == backlog[l] > 0

ShutdownAfterAccept(l) == sd_msgs[l] > 0 /\ backlog[l] = 0

ShutdownBranchReady(l) == sd_msgs[l] > 0

\* Lines 76-80: TcpListener::bind(..).await?
AcceptConnBind(l) ==
    /\ lst_pc[l] = "bind"
    /\ lst_pc' = [lst_pc EXCEPT ![l] = "select"]
    /\ UNCHANGED <<JOIN_HANDLE_ID, backlog, conns, tasks, sd_msgs, accept_err, coord_state, sd_sender>>
    /\ UNCHANGED <<meterVars, notListenerVars>>

\* The bind fails: accept_conn returns the error and drops its arguments.
AcceptConnBindErr(l) ==
    /\ lst_pc[l] = "bind"
    /\ lst_pc' = [lst_pc EXCEPT ![l] = "BindErr"]
    /\ msg_senders' = msg_senders - 1
    /\ UNCHANGED <<JOIN_HANDLE_ID, backlog, conns, tasks, sd_msgs, accept_err, coord_state, sd_sender>>
    /\ UNCHANGED <<meter_pc, map, msg_chan, sd_chan, meter_handle, last_rate, registered, now>>
    /\ UNCHANGED notListenerVars

\* Lines 87-89 and 102-114: a connection is accepted, its relay task is
\* spawned with a clone of the meter sender, the handle is inserted under the
\* next id and the finished handles are swept.
AcceptConnAccept(l) ==
    /\ lst_pc[l] = "select"
    /\ AcceptBranchReady(l)
    /\ Spawned < MaxConns
    /\ LET t  == Spawned + 1
           tk == [tasks EXCEPT ![t] = [owner |-> l, state |-> "running"]]
       IN  /\ tasks' = tk
           /\ conns' = [conns EXCEPT ![l] = Retain(Insert(@, JOIN_HANDLE_ID, t), tk)]
    /\ JOIN_HANDLE_ID' = NextId(JOIN_HANDLE_ID)
    /\ backlog' = [backlog EXCEPT ![l] = @ - 1]
    /\ msg_senders' = msg_senders + 1
    /\ UNCHANGED <<lst_pc, sd_msgs, accept_err, coord_state, sd_sender>>
    /\ UNCHANGED <<meter_pc, map, msg_chan, sd_chan, meter_handle, last_rate, registered, now>>
    /\ UNCHANGED notListenerVars

\* Lines 90-93: accept returns an error; it is logged and the loop continues.
AcceptConnAcceptErr(l) ==
    /\ lst_pc[l] = "select"
    /\ accept_err' = [accept_err EXCEPT ![l] = TRUE]
    /\ UNCHANGED <<JOIN_HANDLE_ID, lst_pc, backlog, conns, tasks, sd_msgs, coord_state, sd_sender>>
    /\ UNCHANGED <<meterVars, notListenerVars>>

\* Lines 96-99: the shutdown branch wins with a message: leave the loop.
AcceptConnShutdown(l) ==
    /\ lst_pc[l] = "select"
    /\ ShutdownBranchReady(l)
    /\ sd_msgs' = [sd_msgs EXCEPT ![l] = @ - 1]
    /\ lst_pc' = [lst_pc EXCEPT ![l] = "drain"]
    /\ UNCHANGED <<JOIN_HANDLE_ID, backlog, conns, tasks, accept_err, coord_state, sd_sender>>
    /\ UNCHANGED <<meterVars, notListenerVars>>

\* A listener that would take a closed shutdown channel for a shutdown
\* message and go on to its drain.
AcceptConnChannelClosedDrains(l) ==
    /\ lst_pc[l] = "select"
    /\ sd_msgs[l] = 0
    /\ ~sd_sender[l]
    /\ lst_pc' = [lst_pc EXCEPT ![l] = "drain"]
    /\ UNCHANGED <<JOIN_HANDLE_ID, backlog, conns, tasks, sd_msgs, accept_err, coord_state,
                   sd_sender>>
    /\ UNCHANGED <<meterVars, notListenerVars>>

\* Lines 96-97: recv returns None once the channel is empty and its Sender
\* is dropped, and expect panics.  Unwinding drops the listener socket, the
\* meter sender and conns; a dropped JoinHandle detaches its task.
AcceptConnChannelClosed(l) ==
    /\ lst_pc[l] = "select"
    /\ sd_msgs[l] = 0
    /\ ~sd_sender[l]
    /\ lst_pc' = [lst_pc EXCEPT ![l] = "panicked"]
    /\ backlog' = [backlog EXCEPT ![l] = 0]
    /\ conns' = [conns EXCEPT ![l] = {}]
    /\ msg_senders' = msg_senders - 1
    /\ UNCHANGED <<JOIN_HANDLE_ID, tasks, sd_msgs, accept_err, coord_state, sd_sender>>
    /\ UNCHANGED <<meter_pc, map, msg_chan, sd_chan, meter_handle, last_rate, registered, now>>
    /\ UNCHANGED notListenerVars

\* The owner of the Sender of a listener's shutdown channel drops it.
ShutdownSenderDrop(l) ==
    /\ sd_sender[l]
    /\ sd_sender' = [sd_sender EXCEPT ![l] = FALSE]
    /\ UNCHANGED <<JOIN_HANDLE_ID, lst_pc, backlog, conns, tasks, sd_msgs, accept_err,
                   coord_state>>
    /\ UNCHANGED <<meterVars, notListenerVars>>

\* Lines 118-122: one handle of the set is awaited to its end; a task that
\* failed is logged and the loop goes on to the next handle.
AcceptConnDrain(l) ==
    /\ lst_pc[l] = "drain"
    /\ \E e \in conns[l] :
          /\ IsFinished(tasks, e[2])
          /\ conns' = [conns EXCEPT ![l] = @ \ {e}]
    /\ UNCHANGED <<JOIN_HANDLE_ID, lst_pc, backlog, tasks, sd_msgs, accept_err, coord_state, sd_sender>>
    /\ UNCHANGED <<meterVars, notListenerVars>>

\* Line 124: every handle was awaited; Ok(()) is returned, and the listener
\* socket and the meter sender are dropped.
AcceptConnReturn(l) ==
    /\ lst_pc[l] = "drain"
    /\ conns[l] = {}
    /\ lst_pc' = [lst_pc EXCEPT ![l] = "returned"]
    /\ backlog' = [backlog EXCEPT ![l] = 0]
    /\ msg_senders' = msg_senders - 1
    /\ UNCHANGED <<JOIN_HANDLE_ID, conns, tasks, sd_msgs, accept_err, coord_state, sd_sender>>
    /\ UNCHANGED <<meter_pc, map, msg_chan, sd_chan, meter_handle, last_rate, registered, now>>
    /\ UNCHANGED notListenerVars

\* Lines 104-108: the spawned task runs handle_conn to its end, logs its error
\* if any, and ends; its meter sender is dropped.
RelayTaskFinish(t) ==
    /\ tasks[t].state = "running"
    /\ tasks' = [tasks EXCEPT ![t].state = "finished"]
    /\ msg_senders' = msg_senders - 1
    /\ UNCHANGED <<JOIN_HANDLE_ID, lst_pc, backlog, conns, sd_msgs, accept_err, coord_state, sd_sender>>
    /\ UNCHANGED <<meter_pc, map, msg_chan, sd_chan, meter_handle, last_rate, registered, now>>
    /\ UNCHANGED notListenerVars

\* Lines 136 and 182: println! panics when standard output is gone; the task
\* ends with a JoinError.
RelayTaskPanic(t) ==
    /\ tasks[t].state = "running"
    /\ tasks' = [tasks EXCEPT ![t].state = "panicked"]
    /\ msg_senders' = msg_senders - 1
    /\ UNCHANGED <<JOIN_HANDLE_ID, lst_pc, backlog, conns, sd_msgs, accept_err, coord_state, sd_sender>>
    /\ UNCHANGED <<meter_pc, map, msg_chan, sd_chan, meter_handle, last_rate, registered, now>>
    /\ UNCHANGED notListenerVars

\* A client connects to a bound source port.
ClientConnect(l) ==
    /\ lst_pc[l] \in {"select", "drain"}
    /\ backlog[l] < MaxBacklog
    /\ backlog' = [backlog EXCEPT ![l] = @ + 1]
    /\ UNCHANGED <<JOIN_HANDLE_ID, lst_pc, conns, tasks, sd_msgs, accept_err, coord_state, sd_sender>>
    /\ UNCHANGED <<meterVars, notListenerVars>>

(***************************************************************************)
(* Shutdown coordinator: the caller of accept_conn and Meter::shutdown.    *)
(* Its code is not in src/; it is modelled from the design's section 4.5.  *)
(***************************************************************************)
ListenerEnded(l) == lst_pc[l] \in {"returned", "BindErr", "panicked"}

\* Running -> Draining: a shutdown notification is sent to every listener.
CoordTrigger ==
    /\ coord_state = "Running"
    /\ coord_state' = "Draining"
    /\ sd_msgs' = [l \in Listeners |-> IF ListenerEnded(l) \/ ~sd_sender[l]
                                        THEN sd_msgs[l] ELSE sd_msgs[l] + 1]
    /\ UNCHANGED <<JOIN_HANDLE_ID, lst_pc, backlog, conns, tasks, accept_err, sd_sender>>
    /\ UNCHANGED <<meterVars, notListenerVars>>

\* Draining: once all listeners have finished, the Meter is told to shut down.
CoordShutdownMeter ==
    /\ coord_state = "Draining"
    /\ \A l \in Listeners : ListenerEnded(l)
    /\ MeterShutdownSend

\* Draining -> Stopped: Meter::shutdown has returned.
CoordStopped ==
    /\ coord_state = "Draining"
    /\ meter_handle \in {"Ok", "JoinError", "SendCommandError"}
    /\ coord_state' = "Stopped"
    /\ UNCHANGED <<JOIN_HANDLE_ID, lst_pc, backlog, conns, tasks, sd_msgs, accept_err, sd_sender>>
    /\ UNCHANGED <<meterVars, notListenerVars>>

\* The coordinator handed a clone of the meter sender to every listener; it
\* lets go of its own at some point.
CoordDropSender ==
    /\ msg_senders > Cardinality({l \in Listeners : ~ListenerEnded(l)})
                     + Cardinality({t \in TaskIds : tasks[t].state = "running"})
    /\ DropSender

ListenerInit ==
    /\ JOIN_HANDLE_ID = 0
    /\ lst_pc = [l \in Listeners |-> "bind"]
    /\ backlog = [l \in Listeners |-> 0]
    /\ conns = [l \in Listeners |-> {}]
    /\ tasks = [t \in TaskIds |-> NoTask]
    /\ sd_msgs = [l \in Listeners |-> 0]
    /\ accept_err = [l \in Listeners |-> FALSE]
    /\ coord_state = "Running"
    /\ sd_sender = [l \in Listeners |-> TRUE]

(***************************************************************************)
(* Fan-out relay: src/main.rs, handle_forward and get_write_streams        *)
(***************************************************************************)
\* The rule's targets, in the order of its list.
Targets == 1..NTargets

FanInput == [i \in 1..fan_in_len |-> i]

\* Lines 144-158: the streams of the targets that could be connected, or Err
\* when there is none.
GetWriteStreams(reach) == IF reach # {} THEN [ok |-> TRUE, streams |-> reach]
                                         ELSE [ok |-> FALSE, streams |-> {}]

\* Lines 82-89: no entry of write_streams is Some.
IsEmpty(ws) == ws = {}

WrittenUntilFailure(ws, fail, t) ==
    t \in ws /\ t \notin fail /\ \A u \in fail : u > t

\* Lines 125-134: the for loop visits every entry; target t is written the
\* whole chunk when its entry is Some and its write_all does not fail.
Written(ws, fail, t) == t \in ws /\ t \notin fail

\* Lines 96-107: connect to the targets.  Those in reach accept the
\* connection; each of the others is logged once.
HandleForwardConnect ==
    /\ fan_pc = "connect"
    /\ \E reach \in SUBSET Targets :
          LET r == GetWriteStreams(reach)
          IN  /\ connected' = r.streams
              /\ write_streams' = r.streams
              /\ fan_log' = [t \in Targets |-> IF t \in reach THEN 0 ELSE 1]
              /\ fan_pc' = IF r.ok THEN "loop" ELSE "Err"
    /\ UNCHANGED <<fan_in_len, fan_cap, fan_src, fan_rpos, fan_buff, fan_delivered>>
    /\ UNCHANGED notFanVars

\* Lines 110-113: no target can be written to.
HandleForwardNoTargets ==
    /\ fan_pc = "loop"
    /\ IsEmpty(write_streams)
    /\ fan_pc' = "closed"
    /\ UNCHANGED <<fan_in_len, fan_cap, fan_src, fan_rpos, fan_buff, connected,
                   write_streams, fan_delivered, fan_log>>
    /\ UNCHANGED notFanVars

\* Lines 115-117, Ok(b) with b.len() > 0: fill_buf returns between 1 and
\* capacity of the bytes the source has sent.
HandleForwardFill ==
    /\ fan_pc = "loop"
    /\ ~IsEmpty(write_streams)
    /\ fan_src = "open"
    /\ \E n \in 1..Min(fan_cap, fan_in_len - fan_rpos) :
          fan_buff' = SubSeq(FanInput, fan_rpos + 1, fan_rpos + n)
    /\ fan_pc' = "write"
    /\ UNCHANGED <<fan_in_len, fan_cap, fan_src, fan_rpos, connected,
                   write_streams, fan_delivered, fan_log>>
    /\ UNCHANGED notFanVars

\* Line 116, Ok(b) with b.len() == 0: the source is at its end of stream.
HandleForwardEof ==
    /\ fan_pc = "loop"
    /\ ~IsEmpty(write_streams)
    /\ fan_src = "open"
    /\ fan_rpos = fan_in_len
    /\ fan_src' = "eof"
    /\ fan_pc' = "closed"
    /\ UNCHANGED <<fan_in_len, fan_cap, fan_rpos, fan_buff, connected,
                   write_streams, fan_delivered, fan_log>>
    /\ UNCHANGED notFanVars

\* Lines 118-121, Err: the source cannot be read.
HandleForwardReadErr ==
    /\ fan_pc = "loop"
    /\ ~IsEmpty(write_streams)
    /\ fan_src = "open"
    /\ fan_src' = "err"
    /\ fan_pc' = "closed"
    /\ UNCHANGED <<fan_in_len, fan_cap, fan_rpos, fan_buff, connected,
                   write_streams, fan_delivered, fan_log>>
    /\ UNCHANGED notFanVars

\* Lines 125-136: the chunk is written to every target that is still Some.
\* The write_all of the targets in fail fails after k of the chunk's bytes:
\* each is logged and taken out; then the chunk is consumed.
HandleForwardWrite ==
    /\ fan_pc = "write"
    /\ \E fail \in SUBSET write_streams, k \in 0..(Len(fan_buff) - 1) :
          /\ fan_delivered' =
                [t \in Targets |->
                    IF Written(write_streams, fail, t) THEN fan_delivered[t] \o fan_buff
                    ELSE IF t \in write_streams THEN fan_delivered[t] \o Prefix(fan_buff, k)
                    ELSE fan_delivered[t]]
          /\ write_streams' = write_streams \ fail
          /\ fan_log' = [t \in Targets |-> IF t \in fail THEN fan_log[t] + 1 ELSE fan_log[t]]
    /\ fan_rpos' = fan_rpos + Len(fan_buff)
    /\ fan_buff' = <<>>
    /\ fan_pc' = "loop"
    /\ UNCHANGED <<fan_in_len, fan_cap, fan_src, connected>>
    /\ UNCHANGED notFanVars

FanIdle ==
    /\ fan_pc = "none"
    /\ fan_in_len = 0
    /\ fan_cap = 1
    /\ fan_src = "open"
    /\ fan_rpos = 0
    /\ fan_buff = <<>>
    /\ connected = {}
    /\ write_streams = {}
    /\ fan_delivered = [t \in Targets |-> <<>>]
    /\ fan_log = [t \in Targets |-> 0]

\* handle_forward is entered with an accepted stream; what the source sends
\* and the buffer size are the inputs.
FanInit ==
    /\ fan_pc = "connect"
    /\ fan_in_len \in 0..MaxLen
    /\ fan_cap \in 1..MaxBuff
    /\ fan_src = "open"
    /\ fan_rpos = 0
    /\ fan_buff = <<>>
    /\ connected = {}
    /\ write_streams = {}
    /\ fan_delivered = [t \in Targets |-> <<>>]
    /\ fan_log = [t \in Targets |-> 0]

(***************************************************************************)
(* Thread-pool program: src/main.rs main and accept_conn,                  *)
(* src/ThreadPool/mod.rs                                                   *)
(***************************************************************************)
Rules == 1..NRules

Workers == 1..NThread

\* The process runs until main returns or panics.
ProcessAlive == main_pc \in {"bind", "join"}

\* The process ends: its threads end with it.
KilledListeners == [r \in Rules |-> IF pl_pc[r] = "accept" THEN "killed" ELSE pl_pc[r]]

KilledWorkers == [w \in Workers |-> IF wk[w] = "dead" THEN "dead" ELSE "killed"]

\* main.rs lines 33-36, Err: what main does when a rule's port cannot be bound.
OnBindFailure == "BindErr"

\* main.rs lines 32-43, bind Ok: the rule's listener thread is spawned; after
\* the last rule main goes on to join the handles.
MainBindOk ==
    /\ main_pc = "bind"
    /\ bindable[main_i]
    /\ pl_pc' = [pl_pc EXCEPT ![main_i] = "accept"]
    /\ IF main_i = NRules
       THEN main_pc' = "join" /\ main_i' = 1
       ELSE main_pc' = "bind" /\ main_i' = main_i + 1
    /\ UNCHANGED <<bindable, pl_backlog, job_queue, wk, pool_poisoned>>
    /\ UNCHANGED notPoolVars

\* main.rs lines 33-36, bind Err: main returns the error, which ends the
\* process and the listener threads spawned so far.
MainBindErr ==
    /\ main_pc = "bind"
    /\ ~bindable[main_i]
    /\ main_pc' = OnBindFailure
    /\ pl_pc' = KilledListeners
    /\ wk' = KilledWorkers
    /\ UNCHANGED <<main_i, bindable, pl_backlog, job_queue, pool_poisoned>>
    /\ UNCHANGED notPoolVars

\* main.rs lines 44-46: handle.join().unwrap() waits for the listener thread,
\* which ends only by a panic, and then panics itself.
MainJoin ==
    /\ main_pc = "join"
    /\ pl_pc[main_i] \in {"AcceptPanic", "LockPanic", "SendPanic"}
    /\ main_pc' = "panicked"
    /\ pl_pc' = KilledListeners
    /\ wk' = KilledWorkers
    /\ UNCHANGED <<main_i, bindable, pl_backlog, job_queue, pool_poisoned>>
    /\ UNCHANGED notPoolVars

\* ThreadPool lines 24-29 and 53: the Receiver lives in the Arc the workers
\* share, so it is dropped, and send fails, once every worker thread has ended.
ReceiverAlive == \E w \in Workers : wk[w] # "dead"

\* main.rs lines 69-78, Ok: a connection is accepted and its job is handed to
\* the pool.  lock().unwrap() panics on a poisoned mutex; send(job).unwrap()
\* panics, holding the lock, when the receiver is gone.
PlAccept(r) ==
    /\ ProcessAlive
    /\ pl_pc[r] = "accept"
    /\ pl_backlog[r] > 0
    /\ pl_backlog' = [pl_backlog EXCEPT ![r] = @ - 1]
    /\ IF pool_poisoned
       THEN /\ pl_pc' = [pl_pc EXCEPT ![r] = "LockPanic"]
            /\ UNCHANGED <<job_queue, pool_poisoned>>
       ELSE IF ReceiverAlive
       THEN /\ job_queue < MaxQueue
            /\ job_queue' = job_queue + 1
            /\ UNCHANGED <<pl_pc, pool_poisoned>>
       ELSE /\ pl_pc' = [pl_pc EXCEPT ![r] = "SendPanic"]
            /\ pool_poisoned' = TRUE
            /\ UNCHANGED job_queue
    /\ UNCHANGED <<main_pc, main_i, bindable, wk>>
    /\ UNCHANGED notPoolVars

\* main.rs line 70: what read_stream.unwrap() makes of an accept error.
OnAcceptError == "AcceptPanic"

\* main.rs lines 69-70, Err: incoming() yields an accept error.
PlAcceptErr(r) ==
    /\ ProcessAlive
    /\ pl_pc[r] = "accept"
    /\ pl_pc' = [pl_pc EXCEPT ![r] = OnAcceptError]
    /\ pl_backlog' = [pl_backlog EXCEPT ![r] = 0]
    /\ UNCHANGED <<main_pc, main_i, bindable, job_queue, wk, pool_poisoned>>
    /\ UNCHANGED notPoolVars

\* A client connects to a rule's source port.
PlClientConnect(r) ==
    /\ ProcessAlive
    /\ pl_pc[r] = "accept"
    /\ pl_backlog[r] < MaxBacklog
    /\ pl_backlog' = [pl_backlog EXCEPT ![r] = @ + 1]
    /\ UNCHANGED <<main_pc, main_i, bindable, pl_pc, job_queue, wk, pool_poisoned>>
    /\ UNCHANGED notPoolVars

\* ThreadPool lines 77-80: a worker takes a job from the channel.
WorkerRecv(w) ==
    /\ ProcessAlive
    /\ wk[w] = "recv"
    /\ job_queue > 0
    /\ job_queue' = job_queue - 1
    /\ wk' = [wk EXCEPT ![w] = "job"]
    /\ UNCHANGED <<main_pc, main_i, bindable, pl_pc, pl_backlog, pool_poisoned>>
    /\ UNCHANGED notPoolVars

\* main.rs line 77: what the job makes of handle_forward's result; unwrap()
\* of an Err panics the worker thread, which leaves its loop.
JobOutcome(res) == IF res.ok THEN "relay" ELSE "dead"

\* main.rs lines 72-77 and 96-98: the job starts handle_forward, which
\* connects to the targets that can be reached.
WorkerConnect(w) ==
    /\ ProcessAlive
    /\ wk[w] = "job"
    /\ \E reach \in SUBSET Targets :
          wk' = [wk EXCEPT ![w] = JobOutcome(GetWriteStreams(reach))]
    /\ UNCHANGED <<main_pc, main_i, bindable, pl_pc, pl_backlog, job_queue, pool_poisoned>>
    /\ UNCHANGED notPoolVars

\* main.rs lines 109-141 and ThreadPool lines 79-81: the relay loop ends,
\* handle_forward returns Ok and the worker goes back to the channel.
WorkerFinish(w) ==
    /\ ProcessAlive
    /\ wk[w] = "relay"
    /\ wk' = [wk EXCEPT ![w] = "recv"]
    /\ UNCHANGED <<main_pc, main_i, bindable, pl_pc, pl_backlog, job_queue, pool_poisoned>>
    /\ UNCHANGED notPoolVars

PoolIdle ==
    /\ main_pc = "none"
    /\ main_i = 1
    /\ bindable = [r \in Rules |-> TRUE]
    /\ pl_pc = [r \in Rules |-> "none"]
    /\ pl_backlog = [r \in Rules |-> 0]
    /\ job_queue = 0
    /\ wk = [w \in Workers |-> "none"]
    /\ pool_poisoned = FALSE

\* main.rs lines 13-31: the configuration is read and the pool is created;
\* which ports can be bound is the input.
PoolInit ==
    /\ main_pc = "bind"
    /\ main_i = 1
    /\ bindable \in [Rules -> BOOLEAN]
    /\ pl_pc = [r \in Rules |-> "none"]
    /\ pl_backlog = [r \in Rules |-> 0]
    /\ job_queue = 0
    /\ wk = [w \in Workers |-> "recv"]
    /\ pool_poisoned = FALSE

(***************************************************************************)
(* Configuration: src/Config/mod.rs, get_config                            *)
(***************************************************************************)
CfgTargets == {"a", "b"}

\* Lines 7-10: Forward { s_port, target }.
Forward == [s_port : 1..MaxPort, target : CfgTargets]

\* A rule string whose target does not parse.
BadRule == [s_port |-> 1, target |-> "bad"]

\* Lines 44-69: get_forward returns the rule, or Err for a string that does
\* not parse.
GetForward(e) == IF e.target \in CfgTargets THEN [ok |-> TRUE, forward |-> e]
                 ELSE [ok |-> FALSE, forward |-> e]

SeqsUpTo(S, n) == UNION {[1..k -> S] : k \in 0..n}

\* Lines 107-111: forwards.iter().map(|f| f.s_port).collect().contains(..)
ContainsPort(fwd, port) == \E i \in 1..Len(fwd) : fwd[i].s_port = port

PushAlways(fwd, f) == TRUE

\* Line 124: forwards.len() == 0 || forwards.iter().all(|f| f.s_port != file_f.s_port)
FileRuleAdmitted(fwd, f) ==
    Len(fwd) = 0 \/ \A i \in 1..Len(fwd) : fwd[i].s_port # f.s_port

\* Lines 145-161: read_config_file parses every line, and fails at the first
\* that does not parse.
ReadConfigFile(lines) ==
    IF \A i \in 1..Len(lines) : GetForward(lines[i]).ok
    THEN [ok |-> TRUE, forwards |-> lines]
    ELSE [ok |-> FALSE, forwards |-> <<>>]

\* Line 136: sort_by(|f1, f2| f1.s_port.cmp(&f2.s_port)), a stable sort.
RECURSIVE InsertByPort(_, _)
InsertByPort(sorted, f) ==
    IF sorted = <<>> THEN <<f>>
    ELSE IF sorted[Len(sorted)].s_port <= f.s_port THEN Append(sorted, f)
    ELSE Append(InsertByPort(SubSeq(sorted, 1, Len(sorted) - 1), f), sorted[Len(sorted)])

RECURSIVE SortByPort(_)
SortByPort(v) ==
    IF v = <<>> THEN <<>>
    ELSE InsertByPort(SortByPort(SubSeq(v, 1, Len(v) - 1)), v[Len(v)])

\* Lines 105-119: one rule of the command line.
GetConfigFreeRule ==
    /\ cfg_pc = "free"
    /\ cfg_i <= Len(cfg_free)
    /\ LET r == GetForward(cfg_free[cfg_i])
       IN  IF ~r.ok
           THEN /\ cfg_pc' = "Err"
                /\ cfg_err' = "invalid rule"
                /\ UNCHANGED <<forwards, cfg_i>>
           ELSE IF ContainsPort(forwards, r.forward.s_port)
           THEN /\ cfg_pc' = "Err"
                /\ cfg_err' = "same port twice"
                /\ UNCHANGED <<forwards, cfg_i>>
           ELSE /\ forwards' = Append(forwards, r.forward)
                /\ cfg_i' = cfg_i + 1
                /\ UNCHANGED <<cfg_pc, cfg_err>>
    /\ UNCHANGED <<cfg_free, cfg_file>>
    /\ UNCHANGED notCfgVars

\* Lines 122-123: after the command line's rules, the file of the -f option
\* is read, if the option is given.
GetConfigReadFile ==
    /\ cfg_pc = "free"
    /\ cfg_i > Len(cfg_free)
    /\ IF ~cfg_file.given
       THEN /\ cfg_pc' = "finish"
            /\ UNCHANGED cfg_err
       ELSE IF ~cfg_file.readable
       THEN /\ cfg_pc' = "Err"
            /\ cfg_err' = "file"
       ELSE IF ~ReadConfigFile(cfg_file.lines).ok
       THEN /\ cfg_pc' = "Err"
            /\ cfg_err' = "invalid rule"
       ELSE /\ cfg_pc' = IF cfg_file.lines = <<>> THEN "finish" ELSE "file"
            /\ UNCHANGED cfg_err
    /\ cfg_i' = 1
    /\ UNCHANGED <<cfg_free, cfg_file, forwards>>
    /\ UNCHANGED notCfgVars

\* Lines 123-127: one rule of the file is put into the forwards vector if
\* its port is not present.
GetConfigFileRule ==
    /\ cfg_pc = "file"
    /\ LET file_f == ReadConfigFile(cfg_file.lines).forwards[cfg_i]
       IN  forwards' = IF FileRuleAdmitted(forwards, file_f)
                       THEN Append(forwards, file_f)
                       ELSE forwards
    /\ cfg_i' = cfg_i + 1
    /\ cfg_pc' = IF cfg_i = Len(cfg_file.lines) THEN "finish" ELSE "file"
    /\ UNCHANGED <<cfg_free, cfg_file, cfg_err>>
    /\ UNCHANGED notCfgVars

\* Lines 130-142: no rule is an error; otherwise the rules are sorted and the
\* Config is returned.
GetConfigFinish ==
    /\ cfg_pc = "finish"
    /\ IF Len(forwards) = 0
       THEN /\ cfg_pc' = "Err"
            /\ cfg_err' = "no forward list found"
            /\ UNCHANGED forwards
       ELSE /\ cfg_pc' = "Ok"
            /\ forwards' = SortByPort(forwards)
            /\ UNCHANGED cfg_err
    /\ UNCHANGED <<cfg_free, cfg_file, cfg_i>>
    /\ UNCHANGED notCfgVars

NoFile == [given |-> FALSE, readable |-> FALSE, lines |-> <<>>]

CfgIdle ==
    /\ cfg_pc = "none"
    /\ cfg_free = <<>>
    /\ cfg_file = NoFile
    /\ cfg_i = 1
    /\ forwards = <<>>
    /\ cfg_err = "none"

\* get_config is entered past its options (lines 71-101); the rules of the
\* command line and the -f file are the inputs.
CfgInit ==
    /\ cfg_pc = "free"
    /\ cfg_free \in SeqsUpTo(Forward \cup {BadRule}, MaxRules)
    /\ cfg_file \in {NoFile, [given |-> TRUE, readable |-> FALSE, lines |-> <<>>]}
                    \cup {[given |-> TRUE, readable |-> TRUE, lines |-> l] :
                            l \in SeqsUpTo(Forward \cup {BadRule}, MaxRules)}
    /\ cfg_i = 1
    /\ forwards = <<>>
    /\ cfg_err = "none"

(***************************************************************************)
(* The ThreadPool on its own (src/ThreadPool/mod.rs).  A job is a closure  *)
(* the caller chooses: it returns or it panics.  A worker is "recv" while  *)
(* it waits for the receiver or blocks in recv, "job" while it runs a job, *)
(* "exited" after the break of line 84 and "panicked" when the job it ran  *)
(* unwound its thread.                                                     *)
(***************************************************************************)
JobIds == 1..MaxJobs

NoJob == [state |-> "none", panics |-> FALSE, worker |-> 0, runs |-> 0]

\* The Receiver lives in the Arc the worker threads share (lines 25, 29): it
\* is dropped with the last worker thread that ends.
TpReceiverAlive == \E w \in Workers : tp_workers[w] \in {"recv", "job"}

\* execute, lines 48-54: the job is sent on the channel; send fails when the
\* receiver is gone, the unwrap panics in the caller and the job is dropped.
Execute(panics) ==
    /\ tp_sender
    /\ \E j \in JobIds :
        /\ tp_jobs[j].state = "none"
        /\ \A i \in JobIds : i < j => tp_jobs[i].state # "none"
        /\ IF TpReceiverAlive
           THEN /\ tp_channel' = Append(tp_channel, j)
                /\ tp_jobs' = [tp_jobs EXCEPT ![j] = [NoJob EXCEPT !.state = "queued",
                                                                   !.panics = panics]]
           ELSE /\ tp_jobs' = [tp_jobs EXCEPT ![j] = [NoJob EXCEPT !.state = "rejected",
                                                                   !.panics = panics]]
                /\ UNCHANGED tp_channel
    /\ UNCHANGED <<tp_sender, tp_workers, tp_drop>>
    /\ UNCHANGED notTpVars

\* Worker loop, lines 77-80: recv returns Ok(job) and the job starts on this
\* worker; the receiver's lock is released at the end of the statement.
WorkerTake(w) ==
    /\ tp_workers[w] = "recv"
    /\ tp_channel # <<>>
    /\ tp_channel' = Tail(tp_channel)
    /\ tp_jobs' = [tp_jobs EXCEPT ![Head(tp_channel)] =
                      [@ EXCEPT !.state = "running", !.worker = w, !.runs = @ + 1]]
    /\ tp_workers' = [tp_workers EXCEPT ![w] = "job"]
    /\ UNCHANGED <<tp_sender, tp_drop>>
    /\ UNCHANGED notTpVars

\* Line 80, job(id): the job returns and the loop goes back to recv, or the
\* job panics; nothing catches the panic, so it ends the worker's thread.
WorkerRunJob(w) ==
    /\ tp_workers[w] = "job"
    /\ \E j \in JobIds :
        /\ tp_jobs[j].state = "running"
        /\ tp_jobs[j].worker = w
        /\ IF tp_jobs[j].panics
           THEN /\ tp_jobs' = [tp_jobs EXCEPT ![j].state = "panicked"]
                /\ tp_workers' = [tp_workers EXCEPT ![w] = "panicked"]
           ELSE /\ tp_jobs' = [tp_jobs EXCEPT ![j].state = "done"]
                /\ tp_workers' = [tp_workers EXCEPT ![w] = "recv"]
    /\ UNCHANGED <<tp_sender, tp_channel, tp_drop>>
    /\ UNCHANGED notTpVars

\* Lines 82-85: recv returns Err once the channel is empty and its sender is
\* dropped; the worker leaves its loop.
WorkerDisconnected(w) ==
    /\ tp_workers[w] = "recv"
    /\ tp_channel = <<>>
    /\ ~tp_sender
    /\ tp_workers' = [tp_workers EXCEPT ![w] = "exited"]
    /\ UNCHANGED <<tp_sender, tp_channel, tp_jobs, tp_drop>>
    /\ UNCHANGED notTpVars

\* Drop, line 59: the sender is taken and dropped, which closes the channel.
PoolDrop ==
    /\ tp_drop.pc = "none"
    /\ tp_sender
    /\ tp_sender' = FALSE
    /\ tp_drop' = [pc |-> "join", i |-> 1]
    /\ UNCHANGED <<tp_channel, tp_jobs, tp_workers>>
    /\ UNCHANGED notTpVars

\* Drop, lines 60-65: the workers are joined in order; join returns when the
\* worker's thread has ended, and the unwrap panics when it ended by a panic.
PoolDropJoin ==
    /\ tp_drop.pc = "join"
    /\ tp_workers[tp_drop.i] \in {"exited", "panicked"}
    /\ tp_drop' = IF tp_workers[tp_drop.i] = "panicked"
                     THEN [tp_drop EXCEPT !.pc = "panicked"]
                  ELSE IF tp_drop.i = NThread
                     THEN [tp_drop EXCEPT !.pc = "returned"]
                  ELSE [tp_drop EXCEPT !.i = @ + 1]
    /\ UNCHANGED <<tp_sender, tp_channel, tp_jobs, tp_workers>>
    /\ UNCHANGED notTpVars

TpIdle ==
    /\ tp_sender = FALSE
    /\ tp_channel = <<>>
    /\ tp_jobs = [j \in JobIds |-> NoJob]
    /\ tp_workers = [w \in Workers |-> "none"]
    /\ tp_drop = [pc |-> "none", i |-> 1]

\* ThreadPool::new, lines 21-36: the channel is open and empty and every
\* worker thread is in its loop.
TpInit ==
    /\ tp_sender = TRUE
    /\ tp_channel = <<>>
    /\ tp_jobs = [j \in JobIds |-> NoJob]
    /\ tp_workers = [w \in Workers |-> "recv"]
    /\ tp_drop = [pc |-> "none", i |-> 1]

(***************************************************************************)
(* Specifications                                                          *)
(***************************************************************************)
ListenerIdle ==
    /\ JOIN_HANDLE_ID = 0
    /\ lst_pc = [l \in Listeners |-> "none"]
    /\ backlog = [l \in Listeners |-> 0]
    /\ conns = [l \in Listeners |-> {}]
    /\ tasks = [t \in TaskIds |-> NoTask]
    /\ sd_msgs = [l \in Listeners |-> 0]
    /\ accept_err = [l \in Listeners |-> FALSE]
    /\ coord_state = "none"
    /\ sd_sender = [l \in Listeners |-> FALSE]

NextMeter ==
    \/ MeterSleep
    \/ MeterDrain
    \/ MeterRates
    \/ MeterCheckShutdown
    \/ ProducerSend
    \/ DropSender
    \/ Tick
    \/ MeterShutdownSend
    \/ MeterShutdownJoin
    \/ MeterDrop

InitMeter == MeterInit /\ RelayIdle /\ ListenerIdle /\ FanIdle /\ PoolIdle /\ CfgIdle /\ TpIdle

SpecMeter == InitMeter /\ [][NextMeter]_vars

NextRelay ==
    \/ HandleConnConnectErr
    \/ HandleConnSpawn
    \/ \E d \in Dirs : RelayTaskStep(d)
    \/ HandleConnJoin
    \/ \E d \in Dirs : PeerClose(d)

InitRelay == MeterInit /\ RelayInit /\ ListenerIdle /\ FanIdle /\ PoolIdle /\ CfgIdle /\ TpIdle

\* tokio runs every spawned task that can step.
SpecRelay ==
    InitRelay /\ [][NextRelay]_vars /\ \A d \in Dirs : WF_vars(RelayTaskStep(d))

\* One relayed connection whose copy loops report to a Meter that runs its
\* cycles and is shut down or dropped by its owner at any moment.
NextRelayMeter ==
    \/ HandleConnConnectErr
    \/ HandleConnSpawn
    \/ \E d \in Dirs : RelayTaskStep(d)
    \/ HandleConnJoin
    \/ \E d \in Dirs : PeerClose(d)
    \/ MeterSleep
    \/ MeterDrain
    \/ MeterRates
    \/ MeterCheckShutdown
    \/ MeterShutdownSend
    \/ MeterShutdownJoin
    \/ MeterDrop

\* The source peer sends the data, which is read a byte at a time; the target
\* peer sends none.
InitRelayMeter == InitRelay /\ in_len["t2s"] = 0 /\ buff_cap = 1

SpecRelayMeter == InitRelayMeter /\ [][NextRelayMeter]_vars

\* The meter was created and every listener was given a clone of its sender.
Init ==
    /\ meter_pc = "sleep"
    /\ map = EmptyMap
    /\ msg_chan = EmptyChan
    /\ msg_senders = 1 + NListeners
    /\ sd_chan = 0
    /\ meter_handle = "live"
    /\ last_rate = [k \in Keys |-> NoRate]
    /\ registered = {}
    /\ now = 0
    /\ seed_reported = {}
    /\ RelayIdle
    /\ ListenerInit
    /\ FanIdle
    /\ PoolIdle
    /\ CfgIdle
    /\ TpIdle

Next ==
    \/ \E l \in Listeners : AcceptConnBind(l)
    \/ \E l \in Listeners : AcceptConnBindErr(l)
    \/ \E l \in Listeners : AcceptConnAccept(l)
    \/ \E l \in Listeners : AcceptConnAcceptErr(l)
    \/ \E l \in Listeners : AcceptConnShutdown(l)
    \/ \E l \in Listeners : AcceptConnDrain(l)
    \/ \E l \in Listeners : AcceptConnReturn(l)
    \/ \E l \in Listeners : ClientConnect(l)
    \/ \E t \in TaskIds : RelayTaskFinish(t)
    \/ \E t \in TaskIds : RelayTaskPanic(t)
    \/ CoordTrigger
    \/ CoordShutdownMeter
    \/ CoordStopped
    \/ CoordDropSender
    \/ MeterSleep
    \/ MeterDrain
    \/ MeterRates
    \/ MeterCheckShutdown
    \/ MeterShutdownJoin

Spec == Init /\ [][Next]_vars

\* One listener alone, from bind to return, with the clients that connect to
\* it and the relays it spawns.
DrainListeners == {1}

NextDrain ==
    \/ \E l \in DrainListeners : AcceptConnBind(l)
    \/ \E l \in DrainListeners : AcceptConnBindErr(l)
    \/ \E l \in DrainListeners : AcceptConnAccept(l)
    \/ \E l \in DrainListeners : AcceptConnAcceptErr(l)
    \/ \E l \in DrainListeners : AcceptConnShutdown(l)
    \/ \E l \in DrainListeners : AcceptConnChannelClosed(l)
    \/ \E l \in DrainListeners : ShutdownSenderDrop(l)
    \/ \E l \in DrainListeners : AcceptConnDrain(l)
    \/ \E l \in DrainListeners : AcceptConnReturn(l)
    \/ \E l \in DrainListeners : ClientConnect(l)
    \/ \E t \in TaskIds : RelayTaskFinish(t)
    \/ \E t \in TaskIds : RelayTaskPanic(t)
    \/ CoordTrigger

\* select! polls its branches in a random order, so a branch that stays ready
\* is taken in the end; the runtime resumes accept_conn whenever the handle it
\* awaits is finished.
SpecDrain ==
    /\ Init
    /\ [][NextDrain]_vars
    /\ \A l \in DrainListeners : /\ WF_vars(AcceptConnShutdown(l))
                                  /\ WF_vars(AcceptConnDrain(l))
                                  /\ WF_vars(AcceptConnReturn(l))

NextFanout ==
    \/ HandleForwardConnect
    \/ HandleForwardNoTargets
    \/ HandleForwardFill
    \/ HandleForwardEof
    \/ HandleForwardReadErr
    \/ HandleForwardWrite

InitFanout == MeterInit /\ RelayIdle /\ ListenerIdle /\ FanInit /\ PoolIdle /\ CfgIdle /\ TpIdle

SpecFanout == InitFanout /\ [][NextFanout]_vars

NextPool ==
    \/ MainBindOk
    \/ MainBindErr
    \/ MainJoin
    \/ \E r \in Rules : PlAccept(r)
    \/ \E r \in Rules : PlAcceptErr(r)
    \/ \E r \in Rules : PlClientConnect(r)
    \/ \E w \in Workers : WorkerRecv(w)
    \/ \E w \in Workers : WorkerConnect(w)
    \/ \E w \in Workers : WorkerFinish(w)

InitPool == MeterInit /\ RelayIdle /\ ListenerIdle /\ FanIdle /\ PoolInit /\ CfgIdle /\ TpIdle

SpecPool == InitPool /\ [][NextPool]_vars

NextConfig ==
    \/ GetConfigFreeRule
    \/ GetConfigReadFile
    \/ GetConfigFileRule
    \/ GetConfigFinish

InitConfig == MeterInit /\ RelayIdle /\ ListenerIdle /\ FanIdle /\ PoolIdle /\ CfgInit /\ TpIdle

SpecConfig == InitConfig /\ [][NextConfig]_vars

NextThreadPool ==
    \/ \E panics \in BOOLEAN : Execute(panics)
    \/ \E w \in Workers : WorkerTake(w)
    \/ \E w \in Workers : WorkerRunJob(w)
    \/ \E w \in Workers : WorkerDisconnected(w)
    \/ PoolDrop
    \/ PoolDropJoin

InitThreadPool ==
    MeterInit /\ RelayIdle /\ ListenerIdle /\ FanIdle /\ PoolIdle /\ CfgIdle /\ TpInit

SpecThreadPool == InitThreadPool /\ [][NextThreadPool]_vars

\* The aggregation cycles of a Meter that is not shut down, with the history
\* of what its passes reported.
NextMeterAudit ==
    \/ MeterSleep
    \/ MeterDrain
    \/ MeterRatesAudit
    \/ MeterCheckShutdown
    \/ ProducerSend
    \/ Tick

SpecMeterAudit == InitMeter /\ [][NextMeterAudit]_vars

(***************************************************************************)
(* C1: byte-exactness of forward_loop.  Whenever a copy loop is back at    *)
(* its read with no write error so far, the bytes handed to the            *)
(* destination are exactly the bytes read from the source, in order.       *)
(***************************************************************************)
C1_ByteExact ==
    \A d \in Dirs :
        fl_pc[d] = "read" => delivered[d] = Prefix(Input(d), rpos[d])

(***************************************************************************)
(* C5: half-close propagation.  While a direction's copy loop runs, the    *)
(* read side of the socket it reads is open, whatever the other direction  *)
(* has shut down; a loop ends without error only at its own source's end   *)
(* of stream; a half-close that succeeded has shut the write side of the   *)
(* destination; and a loop that read end of stream goes on to the          *)
(* half-close.  All of it for both directions.                             *)
(***************************************************************************)
LoopRunning(d) == fl_pc[d] \in {"start", "read", "write"}

HalfCloseSafe ==
    \A d \in Dirs :
        /\ LoopRunning(d) => sock[ReadSock(d)].rd
        /\ loop_res[d] = "Ok" => (peer_closed[d] /\ rpos[d] = in_len[d])
        /\ (fl_pc[d] = "done" /\ shutdown_res[d] = "Ok") => ~sock[WriteSock(d)].wr

C5_HalfClosePropagates ==
    /\ []HalfCloseSafe
    /\ \A d \in Dirs : (loop_res[d] = "Ok") ~> (fl_pc[d] = "done")

\* The source has closed and s2t has half-closed the target, whose peer sees
\* the end of stream, while t2s holds a chunk read from the target.
C5_Witness ==
    /\ fl_pc["s2t"] = "done"
    /\ loop_res["s2t"] = "Ok"
    /\ shutdown_res["s2t"] = "Ok"
    /\ ~sock["tgt"].wr
    /\ sock["tgt"].rd
    /\ fl_pc["t2s"] = "write"
    /\ delivered["t2s"] # <<>>

(***************************************************************************)
(* C2: no accept after shutdown is triggered.  While a shutdown message    *)
(* waits in a listener's shutdown channel, no step adds a relay task of    *)
(* that listener.                                                          *)
(***************************************************************************)
AcceptedBy(l) == {t \in TaskIds : tasks[t].owner = l}

C2_NoAcceptAfterShutdown ==
    [][\A l \in Listeners : sd_msgs[l] > 0 => AcceptedBy(l)' = AcceptedBy(l)]_vars

(***************************************************************************)
(* C3: drain completeness.  A relay task that is still running belongs to  *)
(* a listener that has not returned, and while that listener is in its     *)
(* accept loop or its drain the task's handle is in the listener's set.    *)
(***************************************************************************)
C3_DrainComplete ==
    \A t \in TaskIds :
        tasks[t].state = "running" =>
            LET l == tasks[t].owner
            IN  /\ lst_pc[l] # "returned"
                /\ lst_pc[l] \in {"select", "drain"} => \E e \in conns[l] : e[2] = t

(***************************************************************************)
(* C4: after Meter::shutdown has sent the shutdown command and the         *)
(* aggregator thread has taken it from the channel, the thread has ended:  *)
(* it is not in another aggregation cycle.                                 *)
(***************************************************************************)
ShutdownObserved == meter_handle = "joining" /\ sd_chan = 0

C4_MeterStopsAfterSignal ==
    ShutdownObserved => meter_pc \in {"exited", "panicked"}

(***************************************************************************)
(* C6: fan-out delivery under partial failure.  At the top of the relay    *)
(* loop every target that connected and has had no write failure has       *)
(* received exactly the bytes consumed from the source, in order; a target *)
(* that failed to connect or failed a write is out of the live set with    *)
(* one logged failure, and no later step writes to it; the loop has ended  *)
(* only at the source's end of stream, at a source read error or with an   *)
(* empty live set.                                                         *)
(***************************************************************************)
FanStarted == fan_pc \in {"loop", "write", "closed", "Err"}

FanDeliverySafe ==
    FanStarted =>
        /\ \A t \in write_streams :
              /\ t \in connected
              /\ fan_log[t] = 0
              /\ fan_pc \in {"loop", "closed"} => fan_delivered[t] = Prefix(FanInput, fan_rpos)
        /\ \A t \in Targets \ write_streams : fan_log[t] = 1
        /\ fan_pc = "closed" =>
              \/ fan_src = "eof" /\ fan_rpos = fan_in_len
              \/ fan_src = "err"
              \/ IsEmpty(write_streams)

C6_FanoutDelivery ==
    /\ []FanDeliverySafe
    /\ [][\A t \in Targets : (FanStarted /\ t \notin write_streams) =>
              (fan_delivered'[t] = fan_delivered[t] /\ t \notin write_streams')]_vars

\* Three targets: target 2 refused the connection, target 3 failed a write
\* and was dropped, and target 1 went on to receive all the source sent.
C6_Witness ==
    /\ fan_pc = "closed"
    /\ fan_src = "eof"
    /\ fan_in_len = 2
    /\ connected = {1, 3}
    /\ write_streams = {1}
    /\ fan_delivered[1] = <<1, 2>>
    /\ fan_delivered[3] = <<1>>
    /\ fan_log = [t \in Targets |-> IF t = 1 THEN 0 ELSE 1]

(***************************************************************************)
(* C7: zero reachable targets is fatal to the connection only.  While the  *)
(* process runs, the pool has all of its workers and no listener has       *)
(* failed to hand a connection to the pool.                                *)
(***************************************************************************)
LiveWorkers == {w \in Workers : wk[w] # "dead"}

C7_ZeroTargetsKeepsCapacity ==
    ProcessAlive =>
        /\ Cardinality(LiveWorkers) = NThread
        /\ \A r \in Rules : pl_pc[r] \notin {"LockPanic", "SendPanic"}

(***************************************************************************)
(* C8: a bind failure is fatal only to its own rule.  When main has        *)
(* reported a bind failure, the listener of every rule whose port can be   *)
(* bound has been started and has not been stopped by it.                  *)
(***************************************************************************)
C8_BindFailureLocal ==
    main_pc = "BindErr" =>
        \A r \in Rules : bindable[r] => pl_pc[r] \notin {"none", "killed"}

(***************************************************************************)
(* C9: an accept error never terminates the listener.  No listener's       *)
(* accept loop has been ended by an accept error.                          *)
(***************************************************************************)
C9_AcceptErrorNotFatal ==
    \A r \in Rules : pl_pc[r] # "AcceptPanic"

(***************************************************************************)
(* C11: a report sent after Meter::shutdown was called is tolerated.  Once *)
(* shutdown has been called, every report a copy loop makes gets Ok from   *)
(* the send, the loop goes on to its next read, and no copy task has       *)
(* panicked.                                                               *)
(***************************************************************************)
C11_LateSendTolerated ==
    /\ [](\A d \in Dirs : late_report[d] # "Err")
    /\ [](ShutdownCalled => \A d \in Dirs : fl_pc[d] # "panicked")
    /\ [][\A d \in Dirs :
            (ShutdownCalled /\ fl_pc[d] \in {"start", "write"} /\ late_report'[d] # late_report[d]) =>
                fl_pc'[d] = "read"]_vars

\* The thread has taken the shutdown command, and after the call the s2t loop
\* wrote a chunk, reported it and is back at its read.
C11_Witness ==
    /\ meter_handle = "joining"
    /\ sd_chan = 0
    /\ late_report["s2t"] = "Ok"
    /\ fl_pc["s2t"] = "read"
    /\ delivered["s2t"] # <<>>

(***************************************************************************)
(* C12: channel loss is told apart from deliberate shutdown.  The thread   *)
(* that takes a shutdown message stops normally; the thread that finds the *)
(* event channel disconnected panics; and the thread ends in no other way  *)
(* than these two and the loss of the shutdown channel.                    *)
(***************************************************************************)
C12_LossVersusShutdown ==
    /\ [][(meter_pc = "check" /\ sd_chan > 0 /\ meter_pc' # meter_pc) =>
              meter_pc' = "exited"]_vars
    /\ [][(meter_pc = "drain" /\ msg_senders = 0 /\ meter_pc' # meter_pc) =>
              meter_pc' = "panicked"]_vars
    /\ [][(meter_pc # "exited" /\ meter_pc' = "exited") =>
              (meter_pc = "check" /\ sd_chan > 0)]_vars
    /\ [][(meter_pc # "panicked" /\ meter_pc' = "panicked") =>
              \/ (meter_pc = "drain" /\ msg_senders = 0)
              \/ (meter_pc = "check" /\ sd_chan = 0)]_vars

(***************************************************************************)
(* C13: rate computation.  The pass that constructs the rates reports, for *)
(* every window of two samples or more, the sum of the samples' byte       *)
(* counts over the span from the earliest to the latest timestamp, and     *)
(* reports nothing for a window of fewer than two samples.                 *)
(***************************************************************************)
RECURSIVE SumBytes(_)
SumBytes(v) == IF v = <<>> THEN 0 ELSE Head(v)[2] + SumBytes(Tail(v))

Instants(v) == {v[i][1] : i \in 1..Len(v)}

Span(v) ==
    (CHOOSE a \in Instants(v) : \A b \in Instants(v) : a >= b)
  - (CHOOSE a \in Instants(v) : \A b \in Instants(v) : a <= b)

C13_RateOfWindow ==
    [][(meter_pc = "rates" /\ meter_pc' = "check") =>
          \A k \in Keys :
             IF Len(map[k]) >= 2
             THEN last_rate'[k] = <<SumBytes(map[k]), Span(map[k])>>
             ELSE last_rate'[k] = NoRate]_vars

\* A window of three samples, 0 then 1 then 1 byte at instants 0, 1, 2, was
\* reported as 2 bytes over 2 ticks; the other window had one sample.
C13_Witness ==
    /\ meter_pc = "check"
    /\ last_rate[<<"peer1", "From">>] = <<2, 2>>
    /\ last_rate[<<"peer1", "To">>] = NoRate
    /\ Len(map[<<"peer1", "To">>]) = 1

(***************************************************************************)
(* C14: window bound.  Between the end of one cycle's rates pass and the   *)
(* next cycle's drain every window holds at most one sample (exactly one   *)
(* when it exists), and the pass leaves in each window the sample that was *)
(* appended last.                                                          *)
(***************************************************************************)
C14_WindowBound ==
    /\ [](meter_pc \in {"check", "sleep", "drain"} => \A k \in Keys : Len(map[k]) <= 1)
    /\ [][(meter_pc = "rates" /\ meter_pc' = "check") =>
              \A k \in Keys :
                 map[k] # <<>> => map'[k] = <<map[k][Len(map[k])]>>]_vars

\* A window of two samples was cut down to the later one, sent at instant 2.
C14_Witness ==
    /\ meter_pc = "check"
    /\ last_rate[<<"peer1", "From">>] = <<1, 1>>
    /\ map[<<"peer1", "From">>] = << <<2, 1>> >>

(***************************************************************************)
(* C15: duplicate source port rejection.  When two of the rules given to   *)
(* get_config, on the command line or in the file, declare the same source *)
(* port, get_config does not return a Config.                              *)
(***************************************************************************)
Declared == cfg_free \o cfg_file.lines

DuplicatePortDeclared ==
    \E i, j \in 1..Len(Declared) : i < j /\ Declared[i].s_port = Declared[j].s_port

C15_DuplicatePortRejected ==
    DuplicatePortDeclared => cfg_pc # "Ok"

(***************************************************************************)
(* C16: merge, dedupe and sort of rules.  In a returned Config the rules   *)
(* are in strictly ascending order of source port, so no two share a port; *)
(* every rule of the command line is among them, so a port declared on     *)
(* both sides keeps the command line's rule; and the other rules are, for  *)
(* each port, the first rule of the file that declares it.                 *)
(***************************************************************************)
FirstInFile(port) ==
    cfg_file.lines[CHOOSE i \in 1..Len(cfg_file.lines) :
                      /\ cfg_file.lines[i].s_port = port
                      /\ \A j \in 1..(i - 1) : cfg_file.lines[j].s_port # port]

C16_MergeDedupeSort ==
    cfg_pc = "Ok" =>
        /\ \A i \in 1..(Len(forwards) - 1) : forwards[i].s_port < forwards[i + 1].s_port
        /\ \A i \in 1..Len(cfg_free) : \E k \in 1..Len(forwards) : forwards[k] = cfg_free[i]
        /\ \A k \in 1..Len(forwards) :
              \/ \E i \in 1..Len(cfg_free) : cfg_free[i] = forwards[k]
              \/ forwards[k] = FirstInFile(forwards[k].s_port)
        /\ \A i \in 1..Len(cfg_file.lines) : ContainsPort(forwards, cfg_file.lines[i].s_port)

\* Port 2 is declared on the command line and in the file, port 1 in the
\* file only: the Config has the file's rule for 1, then the command line's
\* rule for 2.
C16_Witness ==
    /\ cfg_pc = "Ok"
    /\ cfg_free = <<[s_port |-> 2, target |-> "a"]>>
    /\ cfg_file.lines = <<[s_port |-> 2, target |-> "b"], [s_port |-> 1, target |-> "b"]>>
    /\ forwards = <<[s_port |-> 1, target |-> "b"], [s_port |-> 2, target |-> "a"]>>

(***************************************************************************)
(* C17: metered bytes match written bytes.  In each direction the byte     *)
(* counts reported to the meter add up to the number of bytes the          *)
(* destination's socket accepted.                                          *)
(***************************************************************************)
RECURSIVE ReportedBytes(_)
ReportedBytes(q) == IF q = <<>> THEN 0 ELSE Head(q).n_bytes + ReportedBytes(Tail(q))

C17_MeteredEqualsWritten ==
    \A d \in Dirs :
        ReportedBytes(msg_chan[<<"peer1", MeterDir(d)>>]) = Len(delivered[d])

(***************************************************************************)
(* C19: relay completion waits for both directions.  handle_conn is past   *)
(* its join only when both copy tasks have ended; a task that returned did *)
(* attempt its half-close; and the step by which one direction fails,      *)
(* panics or returns leaves the other direction's position, results and    *)
(* the two socket sides it uses as they are.                               *)
(***************************************************************************)
C19_BothDirectionsAwaited ==
    /\ [](conn_pc = "closed" => \A d \in Dirs : fl_pc[d] \in {"done", "panicked"})
    /\ [](\A d \in Dirs : fl_pc[d] = "done" => shutdown_res[d] # "none")
    /\ [][\A d \in Dirs :
            (fl_pc'[d] # fl_pc[d] /\ fl_pc'[d] \in {"shutdown", "panicked", "done"}) =>
                LET o == OtherDir(d)
                IN  /\ fl_pc'[o] = fl_pc[o]
                    /\ loop_res'[o] = loop_res[o]
                    /\ shutdown_res'[o] = shutdown_res[o]
                    /\ sock'[ReadSock(o)].rd = sock[ReadSock(o)].rd
                    /\ sock'[WriteSock(o)].wr = sock[WriteSock(o)].wr]_vars

\* The s2t task panicked; the t2s task went on to its end of stream and its
\* half-close, and only then handle_conn reported the close.
C19_Witness ==
    /\ conn_pc = "closed"
    /\ fl_pc["s2t"] = "panicked"
    /\ fl_pc["t2s"] = "done"
    /\ loop_res["t2s"] = "Ok"
    /\ shutdown_res["t2s"] = "Ok"

(***************************************************************************)
(* C20: half-close and error merging in one direction.  The half-close is  *)
(* attempted once, after the copy loop has ended with Ok or with an error, *)
(* and not before; handle_forward returns Ok exactly when the loop ended   *)
(* Ok and the half-close gave Ok or NotConnected, and otherwise an error   *)
(* that carries the loop's error and the half-close's error, each when it  *)
(* occurred.                                                               *)
(***************************************************************************)
C20_HalfCloseAndMerge ==
    /\ [](\A d \in Dirs :
            fl_pc[d] = "done" =>
                /\ fwd_ret[d].ok <=> (loop_res[d] = "Ok" /\ shutdown_res[d] \in {"Ok", "NotConnected"})
                /\ fwd_ret[d].loop_error <=> loop_res[d] = "Err"
                /\ fwd_ret[d].shutdown_error <=> shutdown_res[d] = "Other")
    /\ [](\A d \in Dirs : fl_pc[d] \in {"idle", "start", "read", "write", "shutdown"} =>
                              shutdown_res[d] = "none")
    /\ [][\A d \in Dirs :
            shutdown_res'[d] # shutdown_res[d] =>
                /\ shutdown_res[d] = "none"
                /\ loop_res[d] \in {"Ok", "Err"}
                /\ fl_pc[d] = "shutdown"
                /\ fl_pc'[d] = "done"]_vars

\* The s2t loop ended with an error and its half-close found the socket not
\* connected: the error returned carries the loop's error alone.
C20_Witness ==
    /\ fl_pc["s2t"] = "done"
    /\ loop_res["s2t"] = "Err"
    /\ shutdown_res["s2t"] = "NotConnected"
    /\ fwd_ret["s2t"] = [ok |-> FALSE, loop_error |-> TRUE, shutdown_error |-> FALSE]
    /\ fwd_ret["t2s"] = [ok |-> TRUE, loop_error |-> FALSE, shutdown_error |-> FALSE]
    /\ shutdown_res["t2s"] = "NotConnected"

(***************************************************************************)
(* C18: listener shutdown liveness.  If the relay tasks of a listener all  *)
(* end at some time, then a shutdown message waiting for the listener in   *)
(* its accept loop leads to accept_conn returning Ok; and the steps by     *)
(* which a listener takes the message, drains and returns end no relay     *)
(* task.                                                                   *)
(***************************************************************************)
RelaysEnded(l) == \A t \in TaskIds : tasks[t].owner = l => tasks[t].state # "running"

C18_ShutdownLeadsToReturn ==
    /\ \A l \in Listeners :
          (<>[]RelaysEnded(l)) =>
              ((lst_pc[l] = "select" /\ sd_msgs[l] > 0) ~> (lst_pc[l] = "returned"))
    /\ [][(lst_pc' # lst_pc \/ sd_msgs' # sd_msgs) => tasks' = tasks]_vars

\* The listener has returned during Draining, and the two relays it had
\* accepted have ended, one of them by a panic.
C18_Witness ==
    /\ lst_pc[1] = "returned"
    /\ tasks[1] = [owner |-> 1, state |-> "finished"]
    /\ tasks[2] = [owner |-> 1, state |-> "panicked"]
    /\ coord_state = "Draining"

(***************************************************************************)
(* C21: ThreadPool lifecycle.  While the pool's job channel has its sender *)
(* every one of the NThread workers is alive, whatever jobs were           *)
(* submitted; no job is refused, and a job that ended ran once, on one     *)
(* worker; once the drop has started the channel is closed; and the drop   *)
(* has returned only when every submitted job has run to its end and every *)
(* worker has left its loop.                                               *)
(***************************************************************************)
TpLiveWorkers == {w \in Workers : tp_workers[w] \in {"recv", "job"}}

C21_PoolLifecycle ==
    /\ tp_sender => Cardinality(TpLiveWorkers) = NThread
    /\ \A j \in JobIds :
        /\ tp_jobs[j].state # "rejected"
        /\ tp_jobs[j].state \in {"running", "done", "panicked"}
             => tp_jobs[j].runs = 1 /\ tp_jobs[j].worker \in Workers
    /\ tp_drop.pc # "none" => ~tp_sender
    /\ tp_drop.pc = "returned" =>
        /\ \A j \in JobIds : tp_jobs[j].state \in {"none", "done"}
        /\ \A w \in Workers : tp_workers[w] = "exited"

(***************************************************************************)
(* C22: the zero-byte event.  A copy loop that has not passed its start    *)
(* has sent nothing; from its first read on, the events it sent for its    *)
(* endpoint and direction begin with one event of byte count 0 and every   *)
(* later event has a byte count above 0.  For both directions, whether or  *)
(* not the connection carries data.                                        *)
(***************************************************************************)
EventsOf(d) == msg_chan[<<"peer1", MeterDir(d)>>]

C22_ZeroEventFirst ==
    \A d \in Dirs :
        IF fl_pc[d] \in {"idle", "start"}
        THEN EventsOf(d) = <<>>
        ELSE /\ EventsOf(d) # <<>>
             /\ EventsOf(d)[1].n_bytes = 0
             /\ \A i \in 2..Len(EventsOf(d)) : EventsOf(d)[i].n_bytes > 0

\* A connection that carried no byte in either direction has been closed, and
\* each direction sent exactly its zero-byte event.
C22_Witness ==
    /\ conn_pc = "closed"
    /\ \A d \in Dirs :
        /\ in_len[d] = 0
        /\ fl_pc[d] = "done"
        /\ Len(EventsOf(d)) = 1
        /\ EventsOf(d)[1].n_bytes = 0

(***************************************************************************)
(* C23: no byte is reported twice.  The total a rates pass reports for a   *)
(* window does not include the bytes of a sample that the total of an      *)
(* earlier pass already included: when the window's first sample is one an *)
(* earlier pass summed and kept, the reported total is the sum of the      *)
(* samples after it.  Then the totals reported over all cycles add up to   *)
(* no more than the bytes of the events received.                          *)
(***************************************************************************)
C23_CountedOnce ==
    [][(meter_pc = "rates" /\ meter_pc' = "check") =>
          \A k \in seed_reported :
             Len(map[k]) >= 2 => last_rate'[k][1] = SumBytes(Tail(map[k]))]_vars

(***************************************************************************)
(* C24: how accept_conn leaves its accept loop.  A listener leaves its     *)
(* select either by taking a message from its shutdown channel, and then   *)
(* goes to its drain, or, when the channel is empty and its Sender is      *)
(* dropped, by a panic that leaves every relay task as it was; a listener  *)
(* that panicked stays so: it neither drains nor returns.                  *)
(***************************************************************************)
C24_LoopExits ==
    [][\A l \in Listeners :
          /\ (lst_pc[l] = "select" /\ lst_pc'[l] # "select") =>
                \/ /\ sd_msgs[l] > 0
                   /\ sd_msgs'[l] = sd_msgs[l] - 1
                   /\ lst_pc'[l] = "drain"
                \/ /\ sd_msgs[l] = 0
                   /\ ~sd_sender[l]
                   /\ lst_pc'[l] = "panicked"
                   /\ tasks' = tasks
          /\ lst_pc[l] = "panicked" => lst_pc'[l] = "panicked"]_vars

\* The Sender was dropped with no message sent; the listener panicked while a
\* relay it had spawned was still running.
C24_Witness ==
    \E l \in Listeners :
        /\ lst_pc[l] = "panicked"
        /\ coord_state = "Running"
        /\ ~sd_sender[l]
        /\ \E t \in TaskIds : tasks[t] = [owner |-> l, state |-> "running"]

(***************************************************************************)
(* C10: shutdown ordering.  The Meter is told to shut down only after      *)
(* every listener's accept_conn has ended and no relay task runs; the      *)
(* coordinator goes Running, Draining, Stopped in that order; and no relay *)
(* task is created in Draining.                                            *)
(***************************************************************************)
MeterSignalled == meter_handle \in {"joining", "Ok", "JoinError"}

RelayRunning == \E t \in TaskIds : tasks[t].state = "running"

C10_ListenersBeforeMeter ==
    /\ [](MeterSignalled => ((\A l \in Listeners : ListenerEnded(l)) /\ ~RelayRunning))
    /\ [][coord_state' # coord_state =>
            <<coord_state, coord_state'>> \in {<<"Running", "Draining">>, <<"Draining", "Stopped">>}]_vars
    /\ [][coord_state = "Draining" => Spawned' = Spawned]_vars

====
